---------------------------- MODULE Spec2Model ----------------------------
(***************************************************************************)
(* Blogicum: the request handlers of blog/views.py over the store of       *)
(* users, categories, posts and comments.                                  *)
(*                                                                         *)
(* One action per view.  A view reads the request (requester, method,      *)
(* route arguments, query string, submitted form data), reads and writes   *)
(* the store, and leaves its HTTP response in resp.  The server handles    *)
(* one request at a time: Deliver hands the response back and makes the    *)
(* server ready for the next request.                                      *)
(*                                                                         *)
(* Abstractions: a post keeps the fields the views branch on (author,      *)
(* category, is_published, pub_date) and its title; text, image and        *)
(* location are left out.  A user keeps its username.  Time is a counter.  *)
(***************************************************************************)
EXTENDS Integers, Sequences, FiniteSets, TLC

VARIABLES
    users,          \* User table: user id -> [username]
    posts,          \* Post table: post id -> row
    comments,       \* Comment table: comment id -> row
    nextPostId,     \* next primary key of the Post table (auto-increment)
    nextCommentId,  \* next primary key of the Comment table
    now,            \* timezone.now()
    resp            \* the response of the request being served, or NoResp

store == <<users, posts, comments, nextPostId, nextCommentId>>
vars == <<users, posts, comments, nextPostId, nextCommentId, now, resp>>

---------------------------------------------------------------------------
(* Bounds of the model *)

NumUsers == 2
\* posts and comments created in a run of Spec
MaxPosts == 2
MaxComments == 1
MaxTime == 1
\* posts and comments in a store of SpecList
MaxListed == 21
MaxListedComments == 3
\* page numbers asked for run from -1 to MaxPage
MaxPage == 4

(* Program constant: Paginator(posts, 10) *)
PER_PAGE == 10

---------------------------------------------------------------------------
(* The requesters, and the rows of the store *)

\* request.user of a request without a session (AnonymousUser)
Anonymous == 0
Users == 1..NumUsers
Requesters == {Anonymous} \cup Users

\* The usernames of the registered users, and one nobody has
NamePool == <<"ann", "bob", "cat", "dan", "eve">>
Names == {NamePool[i] : i \in 1..NumUsers}
NoSuchName == "nobody"

\* Category rows (edited in the admin only, never by a view)
Categories ==
    (1 :> [slug |-> "news", is_published |-> TRUE])
    @@ (2 :> [slug |-> "hidden", is_published |-> FALSE])
CategoryIds == DOMAIN Categories
Slugs == {Categories[c].slug : c \in CategoryIds} \cup {"nosuch"}

Times == 0..MaxTime
PostIds == 1..MaxPosts
CommentIds == 1..MaxComments
Methods == {"GET", "POST"}

---------------------------------------------------------------------------
(* Requests: query string and form data *)

\* request.GET.get('page'): absent, a text that is no number, or a number
PageInputs ==
    {[kind |-> "absent", n |-> 0], [kind |-> "text", n |-> 0]}
    \cup {[kind |-> "int", n |-> k] : k \in (-1)..MaxPage}

\* request.POST of a request that submits nothing (every GET)
NoData == [title |-> "", text |-> "", username |-> "", category |-> 0,
           is_published |-> FALSE, pub_date |-> 0, author |-> 0, post |-> 0]

\* Submitted post forms: every valid choice of the fields, with or without a
\* forged author field; one without title; one naming no category
PostData ==
    {[NoData EXCEPT !.title = "T", !.category = c, !.is_published = b,
                    !.pub_date = d] :
        c \in CategoryIds, b \in BOOLEAN, d \in Times}
    \cup {[NoData EXCEPT !.title = "T", !.category = 1, !.is_published = TRUE,
                         !.pub_date = MaxTime, !.author = a] : a \in Users}
    \cup {[NoData EXCEPT !.category = 1, !.is_published = TRUE]}
    \cup {[NoData EXCEPT !.title = "T", !.is_published = TRUE]}

\* Submitted comment forms: empty text, two texts
CommentData == {[NoData EXCEPT !.text = t] : t \in {"", "a", "b"}}

\* ... and, to the comment route, forms with a forged author and post
ForgedCommentData ==
    {[NoData EXCEPT !.text = "a", !.author = a, !.post = p] :
        a \in Users, p \in PostIds}

\* Submitted profile forms: a username, or none
ProfileData == {[NoData EXCEPT !.username = n] : n \in Names \cup {""}}

DataOf(method, set) == IF method = "POST" THEN set \cup {NoData} ELSE {NoData}

---------------------------------------------------------------------------
(* forms.py: what a bound form accepts *)

\* PostForm.is_valid(): title and category are required, category must exist.
\* Meta.fields holds no author: a submitted author is not a field of the form.
PostFormIsValid(data) ==
    /\ data.title # ""
    /\ data.category \in CategoryIds

\* CommentForm.is_valid(): fields = ('text',), text is required
CommentFormIsValid(data) == data.text # ""

\* ProfileForm.is_valid() for instance user: username is required and unique
ProfileFormIsValid(data, user) ==
    /\ data.username # ""
    /\ \A u \in DOMAIN users : u # user => users[u].username # data.username

---------------------------------------------------------------------------
(* The query builder: filter, annotate(Count('comments')), order_by *)

\* Mutant: pub_date__lt for pub_date__lte
PublishedFilter_StrictlyPast(p, t) ==
    /\ posts[p].pub_date < t
    /\ posts[p].is_published
    /\ Categories[posts[p].category].is_published

\* Mutant: the filter forgets category__is_published
PublishedFilter_NoCategory(p, t) ==
    /\ posts[p].pub_date <= t
    /\ posts[p].is_published

\* filter(pub_date__lte=t, is_published=True, category__is_published=True)
PublishedFilter(p, t) ==
    /\ posts[p].pub_date <= t
    /\ posts[p].is_published
    /\ Categories[posts[p].category].is_published

\* The NULL of the comment column in a row of the outer join
Null == 0

\* Post LEFT OUTER JOIN Comment ON comment.post_id = post.id, for the posts
\* in S: one row per comment of a post, one row with NULL for a post without
JoinComments(S) ==
    {r \in S \X DOMAIN comments : comments[r[2]].post = r[1]}
    \cup {<<p, Null>> : p \in {q \in S : \A k \in DOMAIN comments :
                                            comments[k].post # q}}

\* Mutant: COUNT(*), which counts the row of a post without comments too
CountComments_Star(p, rows) == Cardinality({r \in rows : r[1] = p})

\* COUNT(comment.id) ... GROUP BY post.id: the rows of the group of p whose
\* comment id is not NULL
CountComments(p, rows) ==
    Cardinality({r \in rows : r[1] = p /\ r[2] # Null})

\* One object of an annotated queryset
Annotate(p, rows) == [id |-> p, comment_count |-> CountComments(p, rows)]

\* ORDER BY pub_date DESC; rows of the same pub_date come in primary-key order
Precedes(p, q) ==
    \/ posts[p].pub_date > posts[q].pub_date
    \/ posts[p].pub_date = posts[q].pub_date /\ p <= q

RECURSIVE OrderByPubDateDesc(_)
OrderByPubDateDesc(S) ==
    IF S = {} THEN <<>>
    ELSE LET first == CHOOSE p \in S : \A q \in S : Precedes(p, q)
         IN  <<first>> \o OrderByPubDateDesc(S \ {first})

\* queryset.annotate(comment_count=Count('comments')).order_by('-pub_date')
\* evaluated over the posts in S
Evaluate(S) ==
    LET rows == JoinComments(S)
        order == OrderByPubDateDesc(S)
    IN  [i \in 1..Len(order) |-> Annotate(order[i], rows)]

\* index: the queryset of lines 16-22
IndexQuery(t) == Evaluate({p \in DOMAIN posts : PublishedFilter(p, t)})

\* category_posts: category.posts ... filter(pub_date__lte, is_published)
CategoryQuery(c, t) ==
    Evaluate({p \in DOMAIN posts :
                /\ posts[p].category = c
                /\ posts[p].pub_date <= t
                /\ posts[p].is_published})

\* profile: every post of the owner for the owner, the published ones for
\* everybody else
ProfileQuery(requester, owner, t) ==
    IF requester = owner
    THEN Evaluate({p \in DOMAIN posts : posts[p].author = owner})
    ELSE Evaluate({p \in DOMAIN posts :
                     posts[p].author = owner /\ PublishedFilter(p, t)})

---------------------------------------------------------------------------
(* django.core.paginator.Paginator(object_list, 10).get_page(number) *)

Min(a, b) == IF a <= b THEN a ELSE b

\* Paginator.num_pages: ceil(max(1, count) / per_page)
NumPages(count) ==
    LET hits == IF count = 0 THEN 1 ELSE count
    IN  (hits + PER_PAGE - 1) \div PER_PAGE

\* Mutant: EmptyPage serves the first page
GetPageNumber_EmptyIsFirst(page, count) ==
    IF page.kind # "int" THEN 1
    ELSE IF page.n < 1 \/ page.n > NumPages(count) THEN 1
    ELSE page.n

\* Paginator.get_page: validate_number raises PageNotAnInteger for a value
\* that is no integer (page 1 is served) and EmptyPage for a number below 1
\* or above num_pages (the last page is served)
GetPageNumber(page, count) ==
    IF page.kind # "int" THEN 1
    ELSE IF page.n < 1 \/ page.n > NumPages(count) THEN NumPages(count)
    ELSE page.n

\* Paginator.page(number).object_list: object_list[bottom:top]
PageItems(list, number) ==
    LET bottom == (number - 1) * PER_PAGE
        top == Min(bottom + PER_PAGE, Len(list))
    IN  SubSeq(list, bottom + 1, top)

---------------------------------------------------------------------------
(* Responses *)

BaseResp ==
    [view |-> "none", user |-> Anonymous, method |-> "GET", post_id |-> 0,
     comment_id |-> 0, name |-> "", page |-> [kind |-> "absent", n |-> 0],
     data |-> NoData, at |-> 0,
     status |-> "none", template |-> "", to_route |-> "", to_post |-> 0,
     to_name |-> "", object_list |-> <<>>, page_items |-> <<>>,
     number |-> 0, num_pages |-> 0, shown_post |-> 0, shown_comments |-> {}]

\* No request is being served
NoResp == BaseResp

\* The request, as the response record keeps it
Request(view, user, method, post_id, comment_id, name, page, data) ==
    [BaseResp EXCEPT !.view = view, !.user = user, !.method = method,
                     !.post_id = post_id, !.comment_id = comment_id,
                     !.name = name, !.page = page, !.data = data, !.at = now]

\* render(request, template, context): 200
Render(req, template) ==
    [req EXCEPT !.status = "render", !.template = template]

\* render of a listing: context['page_obj']
RenderPage(req, template, list) ==
    LET number == GetPageNumber(req.page, Len(list))
    IN  [req EXCEPT !.status = "render", !.template = template,
                    !.object_list = list,
                    !.page_items = PageItems(list, number),
                    !.number = number, !.num_pages = NumPages(Len(list))]

\* redirect('blog:post_detail', post_id=...)
RedirectDetail(req, post_id) ==
    [req EXCEPT !.status = "redirect", !.to_route = "post_detail",
                !.to_post = post_id]

\* redirect('blog:profile', username=...)
RedirectProfile(req, username) ==
    [req EXCEPT !.status = "redirect", !.to_route = "profile",
                !.to_name = username]

\* login_required: the redirect to settings.LOGIN_URL
RedirectLogin(req) ==
    [req EXCEPT !.status = "redirect", !.to_route = "login"]

\* Http404, raised by the view or by get_object_or_404
NotFound(req) == [req EXCEPT !.status = "404"]

\* @login_required: the view runs for an authenticated requester only
IsAuthenticated(user) == user # Anonymous

\* Mutant: the ownership test lets everybody through
IsAuthor_Anybody(row, user) == TRUE

\* The ownership test of a view, row.author != request.user, negated.  An
\* AnonymousUser equals no author.
IsAuthor(row, user) == row.author = user

\* Mutant: the test forgets the category of the post
HiddenFromOthers_NoCategory(post_id) ==
    \/ ~posts[post_id].is_published
    \/ posts[post_id].pub_date > now

\* post_detail, lines 44-48: what hides a post from everybody but its author
HiddenFromOthers(post_id) ==
    \/ ~posts[post_id].is_published
    \/ ~Categories[posts[post_id].category].is_published
    \/ posts[post_id].pub_date > now

---------------------------------------------------------------------------
(* The views that read *)

Idle == resp.view = "none"

\* index(request)
index(user, page) ==
    /\ Idle
    /\ LET req == Request("index", user, "GET", 0, 0, "", page, NoData)
       IN  resp' = RenderPage(req, "blog/index.html", IndexQuery(now))
    /\ UNCHANGED <<store, now>>

\* post_detail(request, post_id)
post_detail(user, post_id) ==
    /\ Idle
    /\ LET req == Request("post_detail", user, "GET", post_id, 0, "",
                          BaseResp.page, NoData)
       IN  resp' =
            IF post_id \notin DOMAIN posts THEN NotFound(req)
            ELSE IF ~IsAuthor(posts[post_id], user) /\ HiddenFromOthers(post_id)
                 THEN NotFound(req)
            ELSE [Render(req, "blog/detail.html") EXCEPT
                    !.shown_post = post_id,
                    !.shown_comments =
                        {c \in DOMAIN comments : comments[c].post = post_id}]
    /\ UNCHANGED <<store, now>>

\* category_posts(request, category_slug)
category_posts(user, slug, page) ==
    /\ Idle
    /\ LET req == Request("category_posts", user, "GET", 0, 0, slug, page,
                          NoData)
           found == {c \in CategoryIds : /\ Categories[c].slug = slug
                                         /\ Categories[c].is_published}
       IN  resp' =
            IF found = {} THEN NotFound(req)
            ELSE RenderPage(req, "blog/category.html",
                            CategoryQuery(CHOOSE c \in found : TRUE, now))
    /\ UNCHANGED <<store, now>>

\* profile(request, username)
profile(user, username, page) ==
    /\ Idle
    /\ LET req == Request("profile", user, "GET", 0, 0, username, page,
                          NoData)
           found == {u \in DOMAIN users : users[u].username = username}
       IN  resp' =
            IF found = {} THEN NotFound(req)
            ELSE RenderPage(req, "blog/profile.html",
                            ProfileQuery(user, CHOOSE u \in found : TRUE,
                                         now))
    /\ UNCHANGED <<store, now>>

---------------------------------------------------------------------------
(* Writes to the store *)

EmptyTable == [i \in {} |-> 0]

Without(table, ids) == [i \in DOMAIN table \ ids |-> table[i]]

\* form.save() of a PostForm: the fields of Meta.fields, nothing else
SavePostFields(row, data) ==
    [row EXCEPT !.title = data.title, !.category = data.category,
                !.is_published = data.is_published,
                !.pub_date = data.pub_date]

\* Mutant: a submitted author field wins over the requester
NewPost_SubmittedAuthor(user, data) ==
    SavePostFields([author |-> IF data.author # 0 THEN data.author ELSE user,
                    title |-> "", category |-> 0,
                    is_published |-> FALSE, pub_date |-> 0], data)

\* post_create, lines 134-136: save(commit=False), author, save()
NewPost(user, data) ==
    SavePostFields([author |-> user, title |-> "", category |-> 0,
                    is_published |-> FALSE, pub_date |-> 0], data)

\* add_comment, lines 164-167: save(commit=False), author, post, save()
NewComment(user, post_id, data) ==
    [author |-> user, post |-> post_id, text |-> data.text]

\* Comment.post is a foreign key to Post that cascades: the comments of a
\* deleted post go with it
CommentsOf(post_id) == {c \in DOMAIN comments : comments[c].post = post_id}

---------------------------------------------------------------------------
(* The views that write *)

\* @login_required edit_profile(request)
edit_profile(user, method, data) ==
    /\ Idle
    /\ LET req == Request("edit_profile", user, method, 0, 0, "",
                          BaseResp.page, data)
       IN  IF ~IsAuthenticated(user)
           THEN resp' = RedirectLogin(req) /\ UNCHANGED store
           ELSE IF method = "POST" /\ ProfileFormIsValid(data, user)
           THEN /\ users' = [users EXCEPT ![user].username = data.username]
                /\ resp' = RedirectProfile(req, data.username)
                /\ UNCHANGED <<posts, comments, nextPostId, nextCommentId>>
           ELSE resp' = Render(req, "blog/user.html") /\ UNCHANGED store
    /\ UNCHANGED now

\* @login_required post_create(request)
post_create(user, method, data) ==
    /\ Idle
    /\ LET req == Request("post_create", user, method, 0, 0, "",
                          BaseResp.page, data)
       IN  IF ~IsAuthenticated(user)
           THEN resp' = RedirectLogin(req) /\ UNCHANGED store
           ELSE IF method = "POST" /\ PostFormIsValid(data)
           THEN /\ nextPostId <= MaxPosts
                /\ posts' = posts @@ (nextPostId :> NewPost(user, data))
                /\ nextPostId' = nextPostId + 1
                /\ resp' = RedirectProfile(req, users[user].username)
                /\ UNCHANGED <<users, comments, nextCommentId>>
           ELSE resp' = Render(req, "blog/create.html") /\ UNCHANGED store
    /\ UNCHANGED now

\* post_edit(request, post_id): its @login_required is commented out
post_edit(user, method, post_id, data) ==
    /\ Idle
    /\ LET req == Request("post_edit", user, method, post_id, 0, "",
                          BaseResp.page, data)
       IN  IF post_id \notin DOMAIN posts
           THEN resp' = NotFound(req) /\ UNCHANGED store
           ELSE IF ~IsAuthor(posts[post_id], user)
           THEN resp' = RedirectDetail(req, post_id) /\ UNCHANGED store
           ELSE IF method = "POST" /\ PostFormIsValid(data)
           THEN /\ posts' = [posts EXCEPT
                               ![post_id] = SavePostFields(@, data)]
                /\ resp' = RedirectDetail(req, post_id)
                /\ UNCHANGED <<users, comments, nextPostId, nextCommentId>>
           ELSE resp' = Render(req, "blog/create.html") /\ UNCHANGED store
    /\ UNCHANGED now

\* @login_required add_comment(request, post_id)
add_comment(user, method, post_id, data) ==
    /\ Idle
    /\ LET req == Request("add_comment", user, method, post_id, 0, "",
                          BaseResp.page, data)
       IN  IF ~IsAuthenticated(user)
           THEN resp' = RedirectLogin(req) /\ UNCHANGED store
           ELSE IF post_id \notin DOMAIN posts
           THEN resp' = NotFound(req) /\ UNCHANGED store
           ELSE IF CommentFormIsValid(data)
           THEN /\ nextCommentId <= MaxComments
                /\ comments' = comments @@
                        (nextCommentId :> NewComment(user, post_id, data))
                /\ nextCommentId' = nextCommentId + 1
                /\ resp' = RedirectDetail(req, post_id)
                /\ UNCHANGED <<users, posts, nextPostId>>
           ELSE resp' = RedirectDetail(req, post_id) /\ UNCHANGED store
    /\ UNCHANGED now

\* Mutant: the comment is looked up by its primary key alone
CommentOfRoute_AnyPost(post_id, comment_id) == comment_id \in DOMAIN comments

\* get_object_or_404(Comment, pk=comment_id, post_id=post_id)
CommentOfRoute(post_id, comment_id) ==
    /\ comment_id \in DOMAIN comments
    /\ comments[comment_id].post = post_id

\* @login_required edit_comment(request, post_id, comment_id)
edit_comment(user, method, post_id, comment_id, data) ==
    /\ Idle
    /\ LET req == Request("edit_comment", user, method, post_id, comment_id,
                          "", BaseResp.page, data)
       IN  IF ~IsAuthenticated(user)
           THEN resp' = RedirectLogin(req) /\ UNCHANGED store
           ELSE IF ~CommentOfRoute(post_id, comment_id)
           THEN resp' = NotFound(req) /\ UNCHANGED store
           ELSE IF ~IsAuthor(comments[comment_id], user)
           THEN resp' = RedirectDetail(req, post_id) /\ UNCHANGED store
           ELSE IF method = "POST" /\ CommentFormIsValid(data)
           THEN /\ comments' = [comments EXCEPT
                                  ![comment_id].text = data.text]
                /\ resp' = RedirectDetail(req, post_id)
                /\ UNCHANGED <<users, posts, nextPostId, nextCommentId>>
           ELSE resp' = Render(req, "blog/comment.html") /\ UNCHANGED store
    /\ UNCHANGED now

\* @login_required post_delete(request, post_id)
post_delete(user, method, post_id, data) ==
    /\ Idle
    /\ LET req == Request("post_delete", user, method, post_id, 0, "",
                          BaseResp.page, data)
       IN  IF ~IsAuthenticated(user)
           THEN resp' = RedirectLogin(req) /\ UNCHANGED store
           ELSE IF post_id \notin DOMAIN posts
           THEN resp' = NotFound(req) /\ UNCHANGED store
           ELSE IF ~IsAuthor(posts[post_id], user)
           THEN resp' = RedirectDetail(req, post_id) /\ UNCHANGED store
           ELSE IF method = "POST"
           THEN /\ posts' = Without(posts, {post_id})
                /\ comments' = Without(comments, CommentsOf(post_id))
                /\ resp' = RedirectProfile(req, users[user].username)
                /\ UNCHANGED <<users, nextPostId, nextCommentId>>
           ELSE resp' = Render(req, "blog/create.html") /\ UNCHANGED store
    /\ UNCHANGED now

\* @login_required delete_comment(request, post_id, comment_id)
delete_comment(user, method, post_id, comment_id, data) ==
    /\ Idle
    /\ LET req == Request("delete_comment", user, method, post_id,
                          comment_id, "", BaseResp.page, data)
       IN  IF ~IsAuthenticated(user)
           THEN resp' = RedirectLogin(req) /\ UNCHANGED store
           ELSE IF ~CommentOfRoute(post_id, comment_id)
           THEN resp' = NotFound(req) /\ UNCHANGED store
           ELSE IF ~IsAuthor(comments[comment_id], user)
           THEN resp' = RedirectDetail(req, post_id) /\ UNCHANGED store
           ELSE IF method = "POST"
           THEN /\ comments' = Without(comments, {comment_id})
                /\ resp' = RedirectDetail(req, post_id)
                /\ UNCHANGED <<users, posts, nextPostId, nextCommentId>>
           ELSE resp' = Render(req, "blog/comment.html") /\ UNCHANGED store
    /\ UNCHANGED now

---------------------------------------------------------------------------
(* The clock, and the end of a request *)

\* Time passes between two requests (a view reads the clock once)
Tick ==
    /\ Idle
    /\ now < MaxTime
    /\ now' = now + 1
    /\ UNCHANGED <<store, resp>>

\* The response is returned; the server takes the next request
Deliver ==
    /\ ~Idle
    /\ resp' = NoResp
    /\ UNCHANGED <<store, now>>

---------------------------------------------------------------------------
(* The blog: the store of a fresh installation with its users registered *)

Init ==
    /\ users = [u \in Users |-> [username |-> NamePool[u]]]
    /\ posts = EmptyTable
    /\ comments = EmptyTable
    /\ nextPostId = 1
    /\ nextCommentId = 1
    /\ now = 0
    /\ resp = NoResp

\* The form data a delete view is sent (it reads none of it)
DeleteData == {[NoData EXCEPT !.title = "T", !.text = "a"]}

\* The pages asked for in Spec, whose listings have one page
FewPages == {[kind |-> "absent", n |-> 0], [kind |-> "int", n |-> 2]}

Next ==
    \/ \E u \in Requesters, pg \in FewPages : index(u, pg)
    \/ \E u \in Requesters, id \in PostIds : post_detail(u, id)
    \/ \E u \in Requesters, sl \in Slugs, pg \in FewPages :
            category_posts(u, sl, pg)
    \/ \E u \in Requesters, n \in Names \cup {NoSuchName}, pg \in FewPages :
            profile(u, n, pg)
    \/ \E u \in Requesters, m \in Methods :
            \E d \in DataOf(m, ProfileData) : edit_profile(u, m, d)
    \/ \E u \in Requesters, m \in Methods :
            \E d \in DataOf(m, PostData) : post_create(u, m, d)
    \/ \E u \in Requesters, m \in Methods, id \in PostIds :
            \E d \in DataOf(m, PostData) : post_edit(u, m, id, d)
    \/ \E u \in Requesters, m \in Methods, id \in PostIds :
            \E d \in DataOf(m, CommentData \cup ForgedCommentData) :
                add_comment(u, m, id, d)
    \/ \E u \in Requesters, m \in Methods, id \in PostIds,
          c \in CommentIds :
            \E d \in DataOf(m, CommentData) : edit_comment(u, m, id, c, d)
    \/ \E u \in Requesters, m \in Methods, id \in PostIds :
            \E d \in DataOf(m, DeleteData) : post_delete(u, m, id, d)
    \/ \E u \in Requesters, m \in Methods, id \in PostIds,
          c \in CommentIds :
            \E d \in DataOf(m, DeleteData) : delete_comment(u, m, id, c, d)
    \/ Tick
    \/ Deliver

Spec == Init /\ [][Next]_vars

---------------------------------------------------------------------------
(* The listings over larger stores: the store is drawn from a family of    *)
(* stores the views can build (n posts and m comments, created in turn by  *)
(* the users), and the listing views are asked for every page.             *)

\* Every k-th post is in the hidden category and the one after it is
\* unpublished (no post is, for k = 0)
HidePeriods == {0, 3}

ListedPost(i, k, d) ==
    [author |-> 1 + (i % NumUsers), title |-> "T",
     category |-> IF k > 0 /\ i % k = 0 THEN 2 ELSE 1,
     is_published |-> ~(k > 0 /\ i % k = 1),
     pub_date |-> (i * d) % (MaxTime + 1)]

ListedComment(j, c, n) ==
    [author |-> 1 + (j % NumUsers), post |-> 1 + ((j * c) % n), text |-> "a"]

InitList ==
    \E n \in 0..MaxListed, m \in 0..MaxListedComments, k \in HidePeriods,
       d \in {0, 1}, c \in {0, 1} :
        /\ n = 0 => m = 0
        /\ users = [u \in Users |-> [username |-> NamePool[u]]]
        /\ posts = [i \in 1..n |-> ListedPost(i, k, d)]
        /\ comments = [j \in 1..m |-> ListedComment(j, c, n)]
        /\ nextPostId = n + 1
        /\ nextCommentId = m + 1
        /\ now \in Times
        /\ resp = NoResp

NextList ==
    \/ \E u \in Requesters, pg \in PageInputs : index(u, pg)
    \/ \E u \in Requesters, sl \in Slugs, pg \in PageInputs :
            category_posts(u, sl, pg)
    \/ \E u \in Requesters, n \in Names \cup {NoSuchName}, pg \in PageInputs :
            profile(u, n, pg)
    \/ Deliver

SpecList == InitList /\ [][NextList]_vars

---------------------------------------------------------------------------
(* The properties.  A response is judged against the store it was computed *)
(* from: between a response and its delivery nothing writes the store and  *)
(* the clock stands still.                                                 *)

\* A post no visitor may see: unpublished, in an unpublished category, or
\* dated after time t
Hidden(p, t) ==
    \/ posts[p].is_published = FALSE
    \/ Categories[posts[p].category].is_published = FALSE
    \/ posts[p].pub_date > t

\* The ids of the posts of a result set
Listed(list) == {list[i].id : i \in DOMAIN list}

ListingViews == {"index", "category_posts", "profile"}

\* C1: a post that is unpublished, or in an unpublished category, or dated
\* in the future is in no result set of index, of category_posts or of a
\* profile asked for by somebody else than its author, and is in the result
\* set of its author's profile when its author asks for it.
C1_HiddenPostsListedToAuthorOnly ==
    \A p \in DOMAIN posts :
        Hidden(p, resp.at) =>
            /\ resp.view \in {"index", "category_posts"}
                    => p \notin Listed(resp.object_list)
            /\ resp.view = "profile" /\ resp.user # posts[p].author
                    => p \notin Listed(resp.object_list)
            /\ ( /\ resp.view = "profile"
                 /\ resp.user = posts[p].author
                 /\ resp.name = users[posts[p].author].username )
                    => /\ resp.status = "render"
                       /\ p \in Listed(resp.object_list)

\* C1 witness: an author's own profile lists a hidden post of theirs
C1_Witness ==
    \E p \in DOMAIN posts :
        /\ Hidden(p, resp.at)
        /\ resp.view = "profile"
        /\ resp.user = posts[p].author
        /\ p \in Listed(resp.object_list)
        /\ \E q \in DOMAIN posts : q # p /\ ~Hidden(q, resp.at)

\* C2: post_detail answers 404 for an id no post has, and for a hidden post
\* asked for by anybody but its author (the anonymous visitor included); it
\* renders any post for its author.
C2_DetailVisibility ==
    resp.view = "post_detail" =>
        LET id == resp.post_id
        IN  /\ id \notin DOMAIN posts => resp.status = "404"
            /\ ( /\ id \in DOMAIN posts
                 /\ resp.user # posts[id].author
                 /\ Hidden(id, resp.at) ) => resp.status = "404"
            /\ (id \in DOMAIN posts /\ resp.user = posts[id].author)
                    => /\ resp.status = "render"
                       /\ resp.template = "blog/detail.html"
                       /\ resp.shown_post = id

\* C2 witness: an author is shown their own hidden post
C2_Witness ==
    /\ resp.view = "post_detail"
    /\ resp.post_id \in DOMAIN posts
    /\ resp.user = posts[resp.post_id].author
    /\ Hidden(resp.post_id, resp.at)
    /\ resp.status = "render"

---------------------------------------------------------------------------
(* Properties of one request: resp' is the response of the step and the    *)
(* unprimed store is the store the request found.                          *)

PostOwnerViews == {"post_edit", "post_delete"}
CommentOwnerViews == {"edit_comment", "delete_comment"}
OwnerViews == PostOwnerViews \cup CommentOwnerViews
MutationViews ==
    OwnerViews \cup {"post_create", "add_comment", "edit_profile"}

\* The response r redirects to the detail page of the post of its route
ToDetail(r) ==
    r.status = "redirect" /\ r.to_route = "post_detail"
        /\ r.to_post = r.post_id

ToLogin(r) == r.status = "redirect" /\ r.to_route = "login"

\* The request of r aims at a stored post or comment that is not the
\* requester's
NotAuthorOfTarget(r) ==
    \/ /\ r.view \in PostOwnerViews
       /\ r.post_id \in DOMAIN posts
       /\ posts[r.post_id].author # r.user
    \/ /\ r.view \in CommentOwnerViews
       /\ r.comment_id \in DOMAIN comments
       /\ comments[r.comment_id].author # r.user

\* Every post or comment the step changed or removed was the requester's
ChangedByAuthor(r) ==
    /\ \A p \in DOMAIN posts :
        (p \notin DOMAIN posts' \/ posts'[p] # posts[p])
            => posts[p].author = r.user
    /\ \A c \in DOMAIN comments :
        (c \notin DOMAIN comments' \/ comments'[c] # comments[c])
            => comments[c].author = r.user

\* ... or, for a removed comment, its post was removed by the post's author
ChangedByAuthorOrCascade(r) ==
    /\ \A p \in DOMAIN posts :
        (p \notin DOMAIN posts' \/ posts'[p] # posts[p])
            => posts[p].author = r.user
    /\ \A c \in DOMAIN comments :
        /\ (c \in DOMAIN comments' /\ comments'[c] # comments[c])
                => comments[c].author = r.user
        /\ c \notin DOMAIN comments'
                => \/ comments[c].author = r.user
                   \/ /\ comments[c].post \notin DOMAIN posts'
                      /\ posts[comments[c].post].author = r.user

C3_StepOriginal ==
    /\ (resp'.view \in OwnerViews /\ NotAuthorOfTarget(resp'))
            => UNCHANGED <<posts, comments>> /\ ToDetail(resp')
    /\ ChangedByAuthor(resp')

\* C3 as claimed: every request of somebody else than the author to an edit
\* or delete view changes nothing and is redirected to the detail page, and
\* whatever is changed or deleted is changed or deleted by its own author.
C3_Original == [][C3_StepOriginal]_vars

C3_StepAmended ==
    /\ (resp'.view \in OwnerViews /\ NotAuthorOfTarget(resp'))
            => /\ UNCHANGED <<posts, comments>>
               /\ ( /\ resp'.user # Anonymous
                    /\ resp'.view \in CommentOwnerViews
                         => comments[resp'.comment_id].post = resp'.post_id )
                        => ToDetail(resp')
    /\ ChangedByAuthorOrCascade(resp')

\* C3, amended: such a request changes no post and no comment; it is
\* redirected to the detail page of the post of the route when the requester
\* is logged in and the comment aimed at is a comment of that post.  A post
\* is changed or deleted, and a comment changed, by its own author only; a
\* comment is deleted by its own author or with its post by the post's author.
C3_NonAuthorsChangeNothing == [][C3_StepAmended]_vars

\* C3 witness: a logged-in user posted to the delete view of somebody else's
\* post and was sent to its detail page
C3_Witness ==
    /\ resp.view = "post_delete"
    /\ resp.method = "POST"
    /\ resp.user # Anonymous
    /\ resp.post_id \in DOMAIN posts
    /\ posts[resp.post_id].author # resp.user
    /\ ToDetail(resp)

C4_StepOriginal ==
    (resp'.view \in MutationViews /\ resp'.user = Anonymous)
        => UNCHANGED store /\ ToLogin(resp')

\* C4: every request of an unauthenticated requester to a mutation view is
\* redirected to the login page and changes nothing in the store.
C4_Original == [][C4_StepOriginal]_vars

C5_StepAuthor ==
    /\ ( /\ resp'.view = "post_create"
         /\ resp'.method = "POST"
         /\ resp'.user # Anonymous
         /\ resp'.data.title # ""
         /\ resp'.data.category \in CategoryIds )
            => \E id \in DOMAIN posts' :
                /\ id \notin DOMAIN posts
                /\ DOMAIN posts' = DOMAIN posts \cup {id}
                /\ posts'[id].author = resp'.user
    /\ ( /\ resp'.view = "add_comment"
         /\ resp'.user # Anonymous
         /\ resp'.post_id \in DOMAIN posts
         /\ resp'.data.text # "" )
            => \E id \in DOMAIN comments' :
                /\ id \notin DOMAIN comments
                /\ DOMAIN comments' = DOMAIN comments \cup {id}
                /\ comments'[id].author = resp'.user
                /\ comments'[id].post = resp'.post_id
    /\ \A p \in DOMAIN posts \cap DOMAIN posts' :
            posts'[p].author = posts[p].author
    /\ \A c \in DOMAIN comments \cap DOMAIN comments' :
            /\ comments'[c].author = comments[c].author
            /\ comments'[c].post = comments[c].post
    /\ \A p \in DOMAIN posts' \ DOMAIN posts : posts'[p].author = resp'.user
    /\ \A c \in DOMAIN comments' \ DOMAIN comments :
            comments'[c].author = resp'.user

\* C5: a valid POST of user U to post_create stores exactly one new post,
\* of author U whatever author the form data names, and a valid POST to
\* add_comment stores one new comment of author U on the post of the route;
\* every post and comment enters the store with its creator as author, and
\* no step changes the author of a stored post or comment.
C5_AuthorIsCreator == [][C5_StepAuthor]_vars

\* C5 witness: a post was created from form data naming another author
C5_Witness ==
    /\ resp.view = "post_create"
    /\ resp.status = "redirect"
    /\ resp.data.author # 0
    /\ resp.data.author # resp.user
    /\ \E p \in DOMAIN posts : posts[p].author = resp.user

---------------------------------------------------------------------------
(* Form validation and the comment routes *)

FormViews ==
    {"edit_profile", "post_create", "post_edit", "add_comment",
     "edit_comment"}

\* The template a view renders its form with
FormTemplate(view) ==
    CASE view = "edit_profile" -> "blog/user.html"
      [] view \in {"post_create", "post_edit"} -> "blog/create.html"
      [] OTHER -> "blog/comment.html"

\* The comment of the request exists and is a comment of the post of the route
UnderRoute(r) ==
    /\ r.comment_id \in DOMAIN comments
    /\ comments[r.comment_id].post = r.post_id

\* The requester may do what the view does: logged in, and the author of
\* the post or comment an edit or delete view aims at
Authorized(r) ==
    /\ r.user # Anonymous
    /\ r.view \in PostOwnerViews
        => r.post_id \in DOMAIN posts /\ posts[r.post_id].author = r.user
    /\ r.view \in CommentOwnerViews
        => UnderRoute(r) /\ comments[r.comment_id].author = r.user
    /\ r.view = "add_comment" => r.post_id \in DOMAIN posts

\* The submitted data fails the validation of the form of the view (the
\* delete views validate no form)
FailsValidation(r) ==
    \/ /\ r.view \in {"post_create", "post_edit"}
       /\ (r.data.title = "" \/ r.data.category \notin CategoryIds)
    \/ /\ r.view \in {"add_comment", "edit_comment"}
       /\ r.data.text = ""
    \/ /\ r.view = "edit_profile"
       /\ \/ r.data.username = ""
          \/ \E u \in DOMAIN users :
                u # r.user /\ users[u].username = r.data.username

C6_StepOriginal ==
    /\ ( /\ resp'.view \in MutationViews
         /\ resp'.method = "POST"
         /\ Authorized(resp')
         /\ FailsValidation(resp') )
            => /\ UNCHANGED store
               /\ resp'.status = "render"
               /\ resp'.template = FormTemplate(resp'.view)
    /\ store' # store
            => /\ resp'.view \in MutationViews
               /\ resp'.method = "POST"
               /\ ~FailsValidation(resp')
               /\ resp'.status = "redirect"

\* C6: in every mutation view an authorized POST of data that fails
\* validation changes nothing and re-renders the form (200), and only a POST
\* that passes validation changes the store and is redirected.  add_comment
\* departs from it: it redirects to the detail page whatever the form says.
C6_Original == [][C6_StepOriginal]_vars

C10_StepOriginal ==
    resp'.view \in CommentOwnerViews
        => /\ ~UnderRoute(resp')
                => resp'.status = "404" /\ UNCHANGED comments
           /\ comments' # comments => UnderRoute(resp')

\* C10 as claimed: a request to edit_comment or delete_comment whose comment
\* does not exist or is a comment of another post than the post of the route
\* is answered 404 and changes no comment.
C10_Original == [][C10_StepOriginal]_vars

C10_StepAmended ==
    resp'.view \in CommentOwnerViews
        => /\ ~UnderRoute(resp')
                => /\ UNCHANGED comments
                   /\ IF resp'.user = Anonymous
                      THEN ToLogin(resp')
                      ELSE resp'.status = "404"
           /\ comments' # comments => UnderRoute(resp')

\* C10, amended: such a request of a logged-in requester, the author of the
\* comment included, is answered 404, and the same request of an anonymous
\* requester by the redirect to the login page; neither changes a comment.
C10_CommentOfAnotherPost == [][C10_StepAmended]_vars

\* C10 witness: the author of a comment asked to edit it under the route of
\* another post, and got 404
C10_Witness ==
    /\ resp.view = "edit_comment"
    /\ resp.method = "POST"
    /\ resp.comment_id \in DOMAIN comments
    /\ comments[resp.comment_id].author = resp.user
    /\ resp.post_id \in DOMAIN posts
    /\ comments[resp.comment_id].post # resp.post_id
    /\ resp.data.text # ""
    /\ resp.status = "404"

---------------------------------------------------------------------------
(* Posts dated in the future *)

\* A post that only its date can hide
Scheduled(p) ==
    posts[p].is_published /\ Categories[posts[p].category].is_published

\* What the response in resp shows of the scheduled posts
C9_Shown ==
    \A p \in DOMAIN posts :
        Scheduled(p) =>
            LET author == posts[p].author
                mine == users[author].username
                slug == Categories[posts[p].category].slug
            IN  IF resp.at < posts[p].pub_date
                THEN /\ ( /\ resp.view \in ListingViews
                          /\ p \in Listed(resp.object_list) )
                            => resp.user = author
                     /\ ( /\ resp.view = "post_detail"
                          /\ resp.post_id = p
                          /\ resp.status = "render" ) => resp.user = author
                     /\ ( /\ resp.user = author
                          /\ resp.view = "profile"
                          /\ resp.name = mine )
                            => p \in Listed(resp.object_list)
                     /\ ( /\ resp.user = author
                          /\ resp.view = "post_detail"
                          /\ resp.post_id = p ) => resp.status = "render"
                ELSE /\ resp.view = "index"
                            => p \in Listed(resp.object_list)
                     /\ (resp.view = "category_posts" /\ resp.name = slug)
                            => p \in Listed(resp.object_list)
                     /\ (resp.view = "profile" /\ resp.name = mine)
                            => p \in Listed(resp.object_list)
                     /\ (resp.view = "post_detail" /\ resp.post_id = p)
                            => /\ resp.status = "render"
                               /\ resp.shown_post = p

C9_Step ==
    \* a valid POST to post_create stores the post as submitted
    /\ ( /\ resp'.view = "post_create"
         /\ resp'.method = "POST"
         /\ resp'.user # Anonymous
         /\ ~FailsValidation(resp') )
            => \E id \in DOMAIN posts' \ DOMAIN posts :
                /\ posts'[id].pub_date = resp'.data.pub_date
                /\ posts'[id].is_published = resp'.data.is_published
                /\ posts'[id].category = resp'.data.category
                /\ posts'[id].author = resp'.user
    \* the clock writes nothing
    /\ now' # now => UNCHANGED store
    \* who is shown what
    /\ C9_Shown'

\* C9: a post created with a future pub_date (published, in a published
\* category) is stored; while now < pub_date it is shown to its author alone
\* (own profile, post_detail); from now = pub_date on it is shown to every
\* requester on index, its category's listing, its author's profile and
\* post_detail, the clock being the only thing that changed.
C9_ScheduledPost == [][C9_Step]_vars

\* C9 witness: a published post dated in the future was just stored
C9_Witness ==
    /\ resp.view = "post_create"
    /\ resp.status = "redirect"
    /\ resp.data.pub_date > resp.at
    /\ \E p \in DOMAIN posts :
        /\ Scheduled(p)
        /\ posts[p].pub_date = resp.data.pub_date
        /\ posts[p].author = resp.user

---------------------------------------------------------------------------
(* Listings: pages and comment counts *)

\* The category or user a listing is asked for exists (and may be listed)
ListingFound(r) ==
    /\ r.view = "category_posts"
        => \E c \in CategoryIds :
            Categories[c].slug = r.name /\ Categories[c].is_published
    /\ r.view = "profile"
        => \E u \in DOMAIN users : users[u].username = r.name

\* C7: a listing is never answered with an error for its page parameter.
\* Its result set is ordered by pub_date descending; page N, for N from 1
\* to the number of pages, holds exactly the items at positions
\* [(N-1)*10, N*10) of the result set; an absent or non-numeric page is
\* page 1, and a page number beyond the last is the last page.
C7_Pagination ==
    (resp.view \in ListingViews /\ ListingFound(resp)) =>
        LET list == resp.object_list
            count == Len(list)
            pages == IF count = 0 THEN 1
                     ELSE (count + PER_PAGE - 1) \div PER_PAGE
            N == resp.number
            asked == resp.page
        IN  /\ resp.status = "render"
            /\ \A i, j \in 1..count :
                i < j => posts[list[i].id].pub_date
                            >= posts[list[j].id].pub_date
            /\ resp.num_pages = pages
            /\ N \in 1..pages
            /\ (asked.kind = "int" /\ asked.n \in 1..pages) => N = asked.n
            /\ asked.kind \in {"absent", "text"} => N = 1
            /\ (asked.kind = "int" /\ asked.n > pages) => N = pages
            /\ Len(resp.page_items)
                = Cardinality({k \in 1..count :
                                 (N - 1) * PER_PAGE < k /\ k <= N * PER_PAGE})
            /\ \A i \in 1..Len(resp.page_items) :
                resp.page_items[i] = list[(N - 1) * PER_PAGE + i]

\* C7 witness: the third page of an index of 21 posts, and its single item
C7_Witness ==
    /\ resp.view = "index"
    /\ resp.page = [kind |-> "int", n |-> 3]
    /\ resp.num_pages = 3
    /\ resp.number = 3
    /\ Len(resp.page_items) = 1

\* C8: the comment_count of every post a listing holds is the number of
\* stored comments that reference the post, whether or not the listing
\* filters posts out.
C8_CommentCount ==
    (resp.view \in ListingViews /\ resp.status = "render") =>
        /\ \A i \in DOMAIN resp.object_list :
            resp.object_list[i].comment_count
                = Cardinality({c \in DOMAIN comments :
                                 comments[c].post = resp.object_list[i].id})
        /\ \A i \in DOMAIN resp.page_items :
            resp.page_items[i].comment_count
                = Cardinality({c \in DOMAIN comments :
                                 comments[c].post = resp.page_items[i].id})

\* C8 witness: an index that filters a post out and holds a post with a
\* comment and a post without
C8_Witness ==
    /\ resp.view = "index"
    /\ \E p \in DOMAIN posts : p \notin Listed(resp.object_list)
    /\ \E i, j \in DOMAIN resp.page_items :
        /\ resp.page_items[i].comment_count > 0
        /\ resp.page_items[j].comment_count = 0

===========================================================================
